---- MODULE Spec2Model ----
(***************************************************************************)
(* Model of the LaTeX block of the editor plugin:                          *)
(*   - the structural validator  (validation utilities, counter / regex)   *)
(*   - the render-based validator (delegates to the typesetting engine)    *)
(*   - formatValidationMessage of both validators                          *)
(*   - the editor widget LatexTool, plain and validating                   *)
(* A string is a sequence of one-character strings.  A text is typed chunk *)
(* by chunk and then handed to one of the two validators; the widget is    *)
(* driven by its event handlers.                                           *)
(***************************************************************************)
EXTENDS Integers, Sequences, FiniteSets, TLC

VARIABLES keys, text, nchunks, pc, strategy, errors, warnings,
          allEnvs, envStack, envErrors, report, engineCalls,
          lastIndex, calls, firstReport, message, caught,
          validating, validator, given, data, state, rendered,
          equationOverlay, overlayCount, bodyListener, observers, textarea,
          doneDisabled, output, saved, event

\* the validators and their caller
core == <<keys, text, nchunks, pc, strategy, errors, warnings,
          allEnvs, envStack, envErrors, report, engineCalls,
          lastIndex, calls, firstReport>>

\* the editor widget
widget == <<validating, validator, given, data, state, rendered,
            equationOverlay, overlayCount, bodyListener, observers, textarea,
            doneDisabled, output, saved, event>>

vars == <<core, message, caught, widget>>

(* ------------------------------------------------------------------ *)
(* Bounds and input alphabets                                          *)
(* ------------------------------------------------------------------ *)

\* number of chunks typed into the textarea before validate is called
MaxChunks == 4

BS == "\\"

BeginKw == <<BS, "b", "e", "g", "i", "n", "{">>
EndKw   == <<BS, "e", "n", "d", "{">>

BeginA == BeginKw \o <<"a", "}">>
BeginB == BeginKw \o <<"b", "}">>
EndA   == EndKw \o <<"a", "}">>
EndB   == EndKw \o <<"b", "}">>

\* delimiters, the escape marker and a letter
KeysDelim == { <<"{">>, <<"}">>, <<"[">>, <<"]">>, <<BS>>, <<"a">> }
\* environment markers, a partial marker and plain characters
KeysEnv   == { BeginA, EndA, BeginB, EndB, BeginKw, <<"}">> }
\* text-mode characters
KeysText  == { <<"$">>, <<BS>>, <<"a">>, <<" ">>, <<"&">>, <<"\n">> }

WhiteSpace == { " ", "\t", "\n" }

Letters == { "a", "b", "c", "d", "e", "f", "g", "h", "i", "j", "k", "l", "m",
             "n", "o", "p", "q", "r", "s", "t", "u", "v", "w", "x", "y", "z",
             "A", "B", "C", "D", "E", "F", "G", "H", "I", "J", "K", "L", "M",
             "N", "O", "P", "Q", "R", "S", "T", "U", "V", "W", "X", "Y", "Z" }

Digits == { "0", "1", "2", "3", "4", "5", "6", "7", "8", "9" }

(* ------------------------------------------------------------------ *)
(* String helpers (JavaScript String methods)                          *)
(* ------------------------------------------------------------------ *)

\* s.startsWith(kw, i - 1) with i 1-based
HasAt(s, i, kw) ==
    /\ i + Len(kw) - 1 <= Len(s)
    /\ \A k \in 1..Len(kw) : s[i + k - 1] = kw[k]

\* s.includes(kw)
Includes(s, kw) == \E i \in 1..Len(s) : HasAt(s, i, kw)

RECURSIVE TrimStart(_)
TrimStart(s) ==
    IF s # <<>> /\ Head(s) \in WhiteSpace THEN TrimStart(Tail(s)) ELSE s

RECURSIVE TrimEnd(_)
TrimEnd(s) ==
    IF s # <<>> /\ s[Len(s)] \in WhiteSpace
    THEN TrimEnd(SubSeq(s, 1, Len(s) - 1))
    ELSE s

\* s.trim()
Trim(s) == TrimEnd(TrimStart(s))

\* variant: the test without the trim
IsBlank_NoTrim(s) == s = <<>>

\* !latexCode || latexCode.trim().length === 0
IsBlank(s) == s = <<>> \/ Len(Trim(s)) = 0

(* ------------------------------------------------------------------ *)
(* Diagnostics.  A message template is kept with its interpolated      *)
(* values: kind, the number n and the names a, b.                      *)
(* ------------------------------------------------------------------ *)

Msg(kind, n, a, b) == [kind |-> kind, n |-> n, a |-> a, b |-> b]

EmptyError               == Msg("LaTeX code is empty", 0, <<>>, <<>>)
UnmatchedClosingBrace(p) == Msg("Unmatched closing brace at position", p, <<>>, <<>>)
UnclosedBraces(c)        == Msg("unclosed brace(s)", c, <<>>, <<>>)
UnmatchedClosingBracket(p) == Msg("Unmatched closing bracket at position", p, <<>>, <<>>)
UnclosedBrackets(c)      == Msg("unclosed bracket(s)", c, <<>>, <<>>)
EndWithoutBegin(name)    == Msg("end has no matching begin", 0, name, name)
EnvironmentMismatch(opened, closing) ==
    Msg("Environment mismatch", 0, opened, closing)
UnclosedEnvironment(name) == Msg("Unclosed environment", 0, name, name)
IncompleteWarning        == Msg("LaTeX command appears incomplete at end", 0, <<>>, <<>>)
UnsupportedWarning(cmd)  == Msg("not supported in PDF generation", 0, cmd, <<>>)
DollarWarning            == Msg("Found unescaped $ sign", 0, <<>>, <<>>)
AmpersandWarning         == Msg("Found & character", 0, <<>>, <<>>)
EngineError(m)           == Msg("engine", 0, m, <<>>)

NoReport == [isValid |-> FALSE, errors |-> <<>>, warnings |-> <<>>, set |-> FALSE]
Report(v, e, w) == [isValid |-> v, errors |-> e, warnings |-> w, set |-> TRUE]

\* variant: warnings gate validity as well
StructuralReport_WarningsGate(errs, warns) ==
    Report(Len(errs) = 0 /\ Len(warns) = 0, errs, warns)

\* return { isValid: errors.length === 0, errors, warnings }
StructuralReport(errs, warns) == Report(Len(errs) = 0, errs, warns)

(* ------------------------------------------------------------------ *)
(* Structural validator: the checks                                    *)
(* ------------------------------------------------------------------ *)

\* prevChar = i > 0 ? latexCode[i - 1] : ''   (i is 1-based here)
PrevChar(s, i) == IF i > 1 THEN s[i - 1] ELSE ""

\* variant: the loop goes on after an unmatched closing brace (no break)
RECURSIVE BraceLoop_NoBreak(_, _, _)
BraceLoop_NoBreak(s, i, braceCount) ==
    IF i > Len(s) THEN [count |-> braceCount, errors |-> <<>>]
    ELSE IF s[i] = "{" /\ PrevChar(s, i) # BS
         THEN BraceLoop_NoBreak(s, i + 1, braceCount + 1)
    ELSE IF s[i] = "}" /\ PrevChar(s, i) # BS
         THEN LET rest == BraceLoop_NoBreak(s, i + 1, braceCount - 1)
              IN  IF braceCount - 1 < 0
                  THEN [count  |-> rest.count,
                        errors |-> <<[kind |-> "Unmatched closing brace at position",
                                      n |-> i, a |-> <<>>, b |-> <<>>]>>
                                   \o rest.errors]
                  ELSE rest
    ELSE BraceLoop_NoBreak(s, i + 1, braceCount)

\* the for loop of checkBalancedBraces from index i on: the counter and the
\* errors pushed by the loop (the loop breaks on the first negative counter)
RECURSIVE BraceLoop(_, _, _)
BraceLoop(s, i, braceCount) ==
    IF i > Len(s) THEN [count |-> braceCount, errors |-> <<>>]
    ELSE IF s[i] = "{" /\ PrevChar(s, i) # BS
         THEN BraceLoop(s, i + 1, braceCount + 1)
    ELSE IF s[i] = "}" /\ PrevChar(s, i) # BS
         THEN IF braceCount - 1 < 0
              THEN [count |-> braceCount - 1,
                    errors |-> <<UnmatchedClosingBrace(i)>>]
              ELSE BraceLoop(s, i + 1, braceCount - 1)
    ELSE BraceLoop(s, i + 1, braceCount)

checkBalancedBraces(s) ==
    LET r == BraceLoop(s, 1, 0)
    IN  r.errors \o (IF r.count > 0 THEN <<UnclosedBraces(r.count)>> ELSE <<>>)

\* variant: the bracket counter also follows the braces
RECURSIVE BracketLoop_SharedCounter(_, _, _)
BracketLoop_SharedCounter(s, i, bracketCount) ==
    IF i > Len(s) THEN [count |-> bracketCount, errors |-> <<>>]
    ELSE IF s[i] \in {"[", "{"} /\ PrevChar(s, i) # BS
         THEN BracketLoop_SharedCounter(s, i + 1, bracketCount + 1)
    ELSE IF s[i] \in {"]", "}"} /\ PrevChar(s, i) # BS
         THEN IF bracketCount - 1 < 0
              THEN [count |-> bracketCount - 1,
                    errors |-> <<[kind |-> "Unmatched closing bracket at position",
                                  n |-> i, a |-> <<>>, b |-> <<>>]>>]
              ELSE BracketLoop_SharedCounter(s, i + 1, bracketCount - 1)
    ELSE BracketLoop_SharedCounter(s, i + 1, bracketCount)

RECURSIVE BracketLoop(_, _, _)
BracketLoop(s, i, bracketCount) ==
    IF i > Len(s) THEN [count |-> bracketCount, errors |-> <<>>]
    ELSE IF s[i] = "[" /\ PrevChar(s, i) # BS
         THEN BracketLoop(s, i + 1, bracketCount + 1)
    ELSE IF s[i] = "]" /\ PrevChar(s, i) # BS
         THEN IF bracketCount - 1 < 0
              THEN [count |-> bracketCount - 1,
                    errors |-> <<UnmatchedClosingBracket(i)>>]
              ELSE BracketLoop(s, i + 1, bracketCount - 1)
    ELSE BracketLoop(s, i + 1, bracketCount)

checkBalancedBrackets(s) ==
    LET r == BracketLoop(s, 1, 0)
    IN  r.errors \o (IF r.count > 0 THEN <<UnclosedBrackets(r.count)>> ELSE <<>>)

\* variant: the pattern without its end anchor
incompletePattern_Unanchored(t) ==
    \E i \in 1..Len(t) : i + 1 <= Len(t) /\ t[i] = BS /\ t[i + 1] \in Letters

\* /\\[a-zA-Z]+\s*$/.test(t)
incompletePattern(t) ==
    \E i \in 1..Len(t) : \E k \in (i + 1)..Len(t) :
        /\ t[i] = BS
        /\ \A m \in (i + 1)..k : t[m] \in Letters
        /\ \A m \in (k + 1)..Len(t) : t[m] \in WhiteSpace

SetMin(S) == CHOOSE x \in S : \A y \in S : x <= y

\* [...s.matchAll(/\\KW\{([^}]+)\}/g)] from 1-based index i on, each match as
\* {type, name: m[1], pos: m.index}
RECURSIVE MatchAll(_, _, _, _)
MatchAll(s, kw, type, i) ==
    IF i > Len(s) THEN <<>>
    ELSE IF ~HasAt(s, i, kw) THEN MatchAll(s, kw, type, i + 1)
    ELSE LET start   == i + Len(kw)
             closers == { j \in start..Len(s) : s[j] = "}" }
         IN  IF closers = {} \/ SetMin(closers) = start
             THEN MatchAll(s, kw, type, i + 1)
             ELSE LET j == SetMin(closers)
                  IN  <<[type |-> type, name |-> SubSeq(s, start, j - 1),
                         pos |-> i - 1]>>
                      \o MatchAll(s, kw, type, j + 1)

\* one element put into a list sorted by pos, after the elements that do not
\* compare greater (Array.prototype.sort is stable)
RECURSIVE InsertByPos(_, _)
InsertByPos(e, sorted) ==
    IF sorted = <<>> THEN <<e>>
    ELSE IF Head(sorted).pos - e.pos > 0 THEN <<e>> \o sorted
    ELSE <<Head(sorted)>> \o InsertByPos(e, Tail(sorted))

\* list.sort((a, b) => a.pos - b.pos)
RECURSIVE SortByPos(_)
SortByPos(list) ==
    IF list = <<>> THEN <<>>
    ELSE InsertByPos(list[Len(list)], SortByPos(SubSeq(list, 1, Len(list) - 1)))

\* allEnvs of checkEnvironments
AllEnvs(s) ==
    SortByPos(MatchAll(s, BeginKw, "begin", 1) \o MatchAll(s, EndKw, "end", 1))

\* variant: a mismatching \end reports the mismatch and leaves the stack as it is
ReplayOne_KeepOnMismatch(env, stack, errs) ==
    IF env.type = "begin"
    THEN [stack |-> Append(stack, env.name), errors |-> errs]
    ELSE IF Len(stack) = 0
         THEN [stack |-> stack,
               errors |-> Append(errs, [kind |-> "end has no matching begin", n |-> 0,
                                        a |-> env.name, b |-> env.name])]
         ELSE IF stack[Len(stack)] # env.name
              THEN [stack |-> stack,
                    errors |-> Append(errs, [kind |-> "Environment mismatch", n |-> 0,
                                             a |-> stack[Len(stack)], b |-> env.name])]
              ELSE [stack |-> SubSeq(stack, 1, Len(stack) - 1), errors |-> errs]

\* variant: an \end on an empty stack is skipped without an error
ReplayOne_SilentOrphan(env, stack, errs) ==
    IF env.type = "begin"
    THEN [stack |-> Append(stack, env.name), errors |-> errs]
    ELSE IF Len(stack) = 0
         THEN [stack |-> stack, errors |-> errs]
         ELSE [stack  |-> SubSeq(stack, 1, Len(stack) - 1),
               errors |-> IF stack[Len(stack)] # env.name
                          THEN Append(errs, [kind |-> "Environment mismatch", n |-> 0,
                                             a |-> stack[Len(stack)], b |-> env.name])
                          ELSE errs]

\* the body of the replay loop for one marker: the stack and errors after it
ReplayOne(env, stack, errs) ==
    IF env.type = "begin"
    THEN [stack |-> Append(stack, env.name), errors |-> errs]
    ELSE IF Len(stack) = 0
         THEN [stack |-> stack, errors |-> Append(errs, EndWithoutBegin(env.name))]
         ELSE LET lastBegin == stack[Len(stack)]
              IN  [stack  |-> SubSeq(stack, 1, Len(stack) - 1),
                   errors |-> IF lastBegin # env.name
                              THEN Append(errs, EnvironmentMismatch(lastBegin, env.name))
                              ELSE errs]

\* variant: the stack is reported from its top down
UnclosedErrors_TopFirst(stack) ==
    [i \in 1..Len(stack) |->
        [kind |-> "Unclosed environment", n |-> 0,
         a |-> stack[Len(stack) + 1 - i], b |-> stack[Len(stack) + 1 - i]]]

\* envStack.forEach(envName => errors.push(Unclosed ...))
UnclosedErrors(stack) == [i \in 1..Len(stack) |-> UnclosedEnvironment(stack[i])]

HtmlClass == <<BS, "h", "t", "m", "l", "C", "l", "a", "s", "s">>
HtmlId    == <<BS, "h", "t", "m", "l", "I", "d">>
HtmlStyle == <<BS, "h", "t", "m", "l", "S", "t", "y", "l", "e">>
HtmlData  == <<BS, "h", "t", "m", "l", "D", "a", "t", "a">>

katexOnlyCommands == <<HtmlClass, HtmlId, HtmlStyle, HtmlData>>

\* variant: the walk over the denylist ends at the first command found
RECURSIVE UnsupportedFrom_FirstOnly(_, _)
UnsupportedFrom_FirstOnly(s, k) ==
    IF k > Len(katexOnlyCommands) THEN <<>>
    ELSE IF Includes(s, katexOnlyCommands[k])
         THEN <<[kind |-> "not supported in PDF generation", n |-> 0,
                 a |-> katexOnlyCommands[k], b |-> <<>>]>>
         ELSE UnsupportedFrom_FirstOnly(s, k + 1)

RECURSIVE UnsupportedFrom(_, _)
UnsupportedFrom(s, k) ==
    IF k > Len(katexOnlyCommands) THEN <<>>
    ELSE (IF Includes(s, katexOnlyCommands[k])
          THEN <<UnsupportedWarning(katexOnlyCommands[k])>> ELSE <<>>)
         \o UnsupportedFrom(s, k + 1)

checkUnsupportedCommands(s) == UnsupportedFrom(s, 1)

\* a match of /(?<!\\)\$(?![^$]*\$)/ at 1-based index i: a '$' not preceded
\* by a backslash and with no '$' anywhere after it
DollarMatchAt(s, i) ==
    /\ s[i] = "$"
    /\ PrevChar(s, i) # BS
    /\ ~ \E j \in (i + 1)..Len(s) : s[j] = "$"

\* the pattern tested on a regex object whose lastIndex is 0
dollarPattern(s) == \E i \in 1..Len(s) : DollarMatchAt(s, i)

\* RegExp.prototype.test of the global pattern on an object whose lastIndex is
\* li: the search starts at li; a match leaves lastIndex at its end, a
\* failure leaves 0
dollarPatternTest(s, li) ==
    LET hits == { i \in (li + 1)..Len(s) : DollarMatchAt(s, i) }
    IN  IF hits = {} THEN [found |-> FALSE, lastIndex |-> 0]
        ELSE [found |-> TRUE, lastIndex |-> SetMin(hits)]

\* variant: one regex object at module level, shared by all calls
NewDollarPattern_Shared(li) == li

\* const dollarPattern = /.../g inside the function: every call evaluates the
\* literal to a new object, whose lastIndex is 0 whatever the one before held
NewDollarPattern(li) == 0

BeginTabular == BeginKw \o <<"t", "a", "b", "u", "l", "a", "r", "}">>

\* variant: only an ampersand that no backslash precedes is warned about
checkUnescapedSpecialChars_UnescapedAmp(s, li) ==
    (IF dollarPatternTest(s, li).found THEN <<DollarWarning>> ELSE <<>>)
    \o (IF (\E i \in 1..Len(s) : s[i] = "&" /\ PrevChar(s, i) # BS)
            /\ ~Includes(s, BeginTabular)
        THEN <<AmpersandWarning>> ELSE <<>>)

\* li is the lastIndex of the dollarPattern object when test is called
checkUnescapedSpecialChars(s, li) ==
    (IF dollarPatternTest(s, li).found THEN <<DollarWarning>> ELSE <<>>)
    \o (IF Includes(s, <<"&">>) /\ ~Includes(s, BeginTabular)
        THEN <<AmpersandWarning>> ELSE <<>>)

(* ------------------------------------------------------------------ *)
(* Render-based validator: the engine and the message clean-up         *)
(* ------------------------------------------------------------------ *)

ParsePrefix == <<"K", "a", "T", "e", "X", " ", "p", "a", "r", "s", "e", " ",
                 "e", "r", "r", "o", "r", ":", " ">>
AtPosition  == <<"a", "t", " ", "p", "o", "s", "i", "t", "i", "o", "n", " ">>
DefaultMessage == <<"I", "n", "v", "a", "l", "i", "d", " ", "L", "a", "T", "e", "X",
                    " ", "s", "y", "n", "t", "a", "x">>

\* messages the engine's ParseError (or any other thrown value) may carry
EngineMessages ==
    { <<>>,
      ParsePrefix \o <<"E", " ">> \o AtPosition \o <<"1", "2", ":", " ", "a">>,
      <<"b", "a", "d", " ">>,
      <<" ">> \o ParsePrefix \o AtPosition \o <<"3", ":", " ">>
              \o AtPosition \o <<"4", ":", " ", "c">> }

\* what renderToString does with throwOnError: true: it returns, or throws
EngineOutcomes ==
    { [threw |-> FALSE, message |-> <<>>] }
    \cup { [threw |-> TRUE, message |-> m] : m \in EngineMessages }

\* variant: the prefix is removed wherever it first stands
StripPrefix_Anywhere(m) ==
    LET hits == { i \in 1..Len(m) : HasAt(m, i, ParsePrefix) }
    IN  IF hits = {} THEN m
        ELSE LET i == SetMin(hits)
             IN  SubSeq(m, 1, i - 1) \o SubSeq(m, i + Len(ParsePrefix), Len(m))

\* m.replace(/^KaTeX parse error: /, '')
StripPrefix(m) ==
    IF HasAt(m, 1, ParsePrefix) THEN SubSeq(m, Len(ParsePrefix) + 1, Len(m)) ELSE m

\* the index after the digits of "at position \d+" starting at i, or 0
RECURSIVE DigitsEnd(_, _)
DigitsEnd(m, j) ==
    IF j <= Len(m) /\ m[j] \in Digits THEN DigitsEnd(m, j + 1) ELSE j

\* the length of a match of /at position \d+: / at index i, or 0
PositionMatch(m, i) ==
    IF ~HasAt(m, i, AtPosition) THEN 0
    ELSE LET d == i + Len(AtPosition)
             e == DigitsEnd(m, d)
         IN  IF e > d /\ HasAt(m, e, <<":", " ">>) THEN e + 2 - i ELSE 0

\* m.replace(/at position \d+: /, ''): the first match only
StripPosition(m) ==
    LET hits == { i \in 1..Len(m) : PositionMatch(m, i) > 0 }
    IN  IF hits = {} THEN m
        ELSE LET i == SetMin(hits)
             IN  SubSeq(m, 1, i - 1) \o SubSeq(m, i + PositionMatch(m, i), Len(m))

\* the catch block: error.message || default, the two replaces, trim
CleanMessage(m) ==
    Trim(StripPosition(StripPrefix(IF m = <<>> THEN DefaultMessage ELSE m)))

(* ------------------------------------------------------------------ *)
(* State machine                                                       *)
(* ------------------------------------------------------------------ *)

\* ampersands and the tabular opening marker, whole and cut short
KeysAmp  == { <<"&">>, BeginTabular, SubSeq(BeginTabular, 1, Len(BeginTabular) - 1),
              <<BS>>, <<"a">> }
\* the denylisted commands
KeysDeny == { HtmlClass, HtmlId, HtmlStyle, HtmlData, <<"{">>, <<"a">> }

Keyboards == { KeysDelim, KeysEnv, KeysText, KeysAmp, KeysDeny }

(* ------------------------------------------------------------------ *)
(* formatValidationMessage                                             *)
(* ------------------------------------------------------------------ *)

\* the pieces of the formatted string: a heading, a numbered entry
\* `  ${n}. ${entry}`, and the '\n' that join puts between two lines
HeadingTok(h)    == [kind |-> "heading", n |-> 0, body |-> Msg(h, 0, <<>>, <<>>)]
ItemTok(i, m)    == [kind |-> "item", n |-> i, body |-> m]
NewLineTok       == [kind |-> "newline", n |-> 0, body |-> Msg("", 0, <<>>, <<>>)]

\* the three heading lines, each without the symbol it starts with
StructuralErrorsHeading == HeadingTok("Errors that must be fixed:")
RenderErrorsHeading     == HeadingTok("Errors:")
WarningsHeading         == HeadingTok("Warnings:")

\* list.forEach((entry, index) => lines.push(`  ${index + 1}. ${entry}`))
ItemLines(list) == [i \in 1..Len(list) |-> <<ItemTok(i, list[i])>>]

\* variant: no separator line between the two sections
FormatLines_NoSeparator(result, heading) ==
    (IF Len(result.errors) > 0
     THEN <<<<heading>>>> \o ItemLines(result.errors) ELSE <<>>)
    \o (IF Len(result.warnings) > 0
        THEN <<<<WarningsHeading>>>> \o ItemLines(result.warnings) ELSE <<>>)

\* the lines array of formatValidationMessage; a line is a sequence of pieces,
\* the separator line '' is the empty sequence
FormatLines(result, heading) ==
    LET errorLines == IF Len(result.errors) > 0
                      THEN <<<<heading>>>> \o ItemLines(result.errors)
                      ELSE <<>>
    IN  errorLines
        \o (IF Len(result.warnings) > 0
            THEN (IF Len(errorLines) > 0 THEN << <<>> >> ELSE <<>>)
                 \o <<<<WarningsHeading>>>> \o ItemLines(result.warnings)
            ELSE <<>>)

\* lines.join('\n')
RECURSIVE JoinLines(_)
JoinLines(lines) ==
    IF lines = <<>> THEN <<>>
    ELSE IF Len(lines) = 1 THEN lines[1]
    ELSE lines[1] \o <<NewLineTok>> \o JoinLines(Tail(lines))

formatValidationMessage(result, heading) == JoinLines(FormatLines(result, heading))

\* nothing caught yet
NoCatch == [threw |-> FALSE, message |-> <<>>]

(* ------------------------------------------------------------------ *)
(* Editor widget (LatexTool): its pure parts                           *)
(* ------------------------------------------------------------------ *)

NL == "\n"

\* s.split('\n')
RECURSIVE Split(_)
Split(s) ==
    IF \A i \in 1..Len(s) : s[i] # NL THEN <<s>>
    ELSE LET i == SetMin({ k \in 1..Len(s) : s[k] = NL })
         IN  <<SubSeq(s, 1, i - 1)>> \o Split(SubSeq(s, i + 1, Len(s)))

\* list.join(sep)
RECURSIVE Join(_, _)
Join(list, sep) ==
    IF list = <<>> THEN <<>>
    ELSE IF Len(list) = 1 THEN list[1]
    ELSE list[1] \o sep \o Join(Tail(list), sep)

\* the data argument of the constructor: each field is given or not
NoData == [equations |-> [has |-> FALSE, v |-> <<>>],
           multilineEquations |-> [has |-> FALSE, v |-> FALSE]]

\* this.data after the constructor: data.equations || [''],
\* data.multilineEquations ?? false
constructor(g) ==
    [equations |-> IF g.equations.has THEN g.equations.v ELSE << <<>> >>,
     multilineEquations |-> IF g.multilineEquations.has
                            THEN g.multilineEquations.v ELSE FALSE]

\* what this.output shows
NoOutput    == [kind |-> "none", system |-> FALSE, equations |-> <<>>]
Placeholder == [kind |-> "placeholder", system |-> FALSE, equations |-> <<>>]

\* renderLatex(): the equations trimmed and filtered, joined to one unless
\* multi-line, wrapped as one equation or as a system, rendered by the engine
\* (ok) or replaced by the engine's error message
renderLatex(st, ok) ==
    LET trimmed  == [i \in 1..Len(st.equations) |-> Trim(st.equations[i])]
        filtered == SelectSeq(trimmed, LAMBDA eq : Len(eq) > 0)
        eqs      == IF st.multilineEquations THEN filtered
                    ELSE <<Join(filtered, <<" ">>)>>
    IN  IF Len(filtered) = 0 THEN Placeholder
        ELSE [kind |-> IF ok THEN "katex" ELSE "error",
              system |-> Len(eqs) # 1,
              equations |-> eqs]

\* checkEnvironments as one function: the for loop, then the unclosed ones
RECURSIVE Replay(_, _, _)
Replay(envs, stack, errs) ==
    IF envs = <<>> THEN [stack |-> stack, errors |-> errs]
    ELSE LET r == ReplayOne(Head(envs), stack, errs)
         IN  Replay(Tail(envs), r.stack, r.errors)

checkEnvironments(s) ==
    LET r == Replay(AllEnvs(s), <<>>, <<>>)
    IN  r.errors \o UnclosedErrors(r.stack)

\* the structural validateLaTeX as one function
validateLaTeX(s) ==
    IF IsBlank(s) THEN Report(FALSE, <<EmptyError>>, <<>>)
    ELSE StructuralReport(
           checkBalancedBraces(s) \o checkBalancedBrackets(s)
               \o checkEnvironments(s),
           (IF incompletePattern(Trim(s)) THEN <<IncompleteWarning>> ELSE <<>>)
               \o checkUnsupportedCommands(s)
               \o checkUnescapedSpecialChars(s, NewDollarPattern(0)))

\* the render-based validateLaTeX as one function of the text and of what the
\* engine does with it
validateLaTeXRender(s, o) ==
    IF IsBlank(s) THEN Report(TRUE, <<>>, <<>>)
    ELSE IF o.threw
         THEN Report(FALSE, <<EngineError(CleanMessage(o.message))>>, <<>>)
         ELSE Report(TRUE, <<>>, <<>>)

\* the engine as the widget sees it: it renders, or it throws
WidgetEngine == { o \in EngineOutcomes : o.message = <<>> }

\* validateAndUpdateButton: doneButton.disabled after validating the trimmed
\* value of the textarea with the validator the widget imports
DoneDisabledFor(which, value, o) ==
    LET result == IF which = "structural" THEN validateLaTeX(Trim(value))
                  ELSE validateLaTeXRender(Trim(value), o)
    IN  ~result.isValid /\ Len(result.errors) > 0

\* variant: closing leaves the document-body listener registered
toggleEquationOverlay_KeepListener(w) ==
    IF ~w.equationOverlay
    THEN [equationOverlay |-> TRUE, overlayCount |-> w.overlayCount + 1,
          bodyListener |-> TRUE, observers |-> w.observers + 1]
    ELSE [equationOverlay |-> FALSE, overlayCount |-> w.overlayCount - 1,
          bodyListener |-> w.bodyListener, observers |-> w.observers - 1]

\* toggleEquationOverlay on the overlay part of the widget: this.equationOverlay
\* is set or not, the overlay elements under the wrapper, the click listener of
\* document.body, the connected resize observers
toggleEquationOverlay(w) ==
    IF ~w.equationOverlay
    THEN [equationOverlay |-> TRUE, overlayCount |-> w.overlayCount + 1,
          bodyListener |-> TRUE, observers |-> w.observers + 1]
    ELSE [equationOverlay |-> FALSE, overlayCount |-> w.overlayCount - 1,
          bodyListener |-> FALSE, observers |-> w.observers - 1]

\* no return value of save() yet
NoSave == [returned |-> FALSE, equations |-> <<>>, multilineEquations |-> FALSE]

\* the widget of a run that only validates: constructed without data, unused
WidgetIdle ==
    /\ validating = FALSE
    /\ validator = "none"
    /\ given = NoData
    /\ data = constructor(NoData)
    /\ state = constructor(NoData)
    /\ rendered = FALSE
    /\ equationOverlay = FALSE
    /\ overlayCount = 0
    /\ bodyListener = FALSE
    /\ observers = 0
    /\ textarea = <<>>
    /\ doneDisabled = FALSE
    /\ output = NoOutput
    /\ saved = NoSave
    /\ event = "constructor"

\* calls made on the validator one after the other
MaxCalls == 3

\* the keyboard of the repeated calls
KeysCalls == { <<"$">>, <<BS>>, <<"a">>, BeginA }

\* strings other callers validate in between
OtherTexts == { <<"$">>, <<"a", "$">>, <<"$", "$", "a">>, <<"a">>, <<BS, "$">> }

Init ==
    /\ keys \in Keyboards
    /\ text = <<>>
    /\ nchunks = 0
    /\ pc = "input"
    /\ strategy = "none"
    /\ errors = <<>>
    /\ warnings = <<>>
    /\ allEnvs = <<>>
    /\ envStack = <<>>
    /\ envErrors = <<>>
    /\ report = NoReport
    /\ engineCalls = 0
    /\ lastIndex = 0
    /\ calls = 0
    /\ firstReport = NoReport
    /\ message = <<>>
    /\ caught = NoCatch
    /\ WidgetIdle

\* the user types one more chunk into the textarea
TypeChunk ==
    /\ pc = "input"
    /\ calls = 0
    /\ nchunks < MaxChunks
    /\ \E c \in keys : text' = text \o c
    /\ nchunks' = nchunks + 1
    /\ UNCHANGED <<keys, pc, strategy, errors, warnings, allEnvs, envStack,
                   envErrors, report, engineCalls, lastIndex, calls,
                   firstReport>>
    /\ UNCHANGED <<message, caught, widget>>

\* structural validateLaTeX, the early return on empty input
ValidateStructuralEmpty ==
    /\ pc = "input"
    /\ IsBlank(text)
    /\ strategy' = "structural"
    /\ report' = Report(FALSE, <<EmptyError>>, <<>>)
    /\ calls' = calls + 1
    /\ firstReport' = IF calls = 0 THEN report' ELSE firstReport
    /\ pc' = "done"
    /\ UNCHANGED <<keys, text, nchunks, errors, warnings, allEnvs, envStack,
                   envErrors, engineCalls, lastIndex>>
    /\ UNCHANGED <<message, caught, widget>>

\* variant: a brace error ends the validation of the delimiters
ValidateStructuralChecks_StopAtBraces ==
    /\ pc = "input"
    /\ ~IsBlank(text)
    /\ strategy' = "structural"
    /\ errors' = IF checkBalancedBraces(text) # <<>>
                 THEN checkBalancedBraces(text)
                 ELSE checkBalancedBrackets(text)
    /\ warnings' = IF incompletePattern(Trim(text)) THEN <<IncompleteWarning>> ELSE <<>>
    /\ allEnvs' = AllEnvs(text)
    /\ envStack' = <<>>
    /\ envErrors' = <<>>
    /\ pc' = "replay"
    /\ UNCHANGED <<keys, text, nchunks, report, engineCalls, lastIndex, calls,
                   firstReport>>
    /\ UNCHANGED <<message, caught, widget>>

\* structural validateLaTeX, checks 1 to 3 and the set-up of checkEnvironments
ValidateStructuralChecks ==
    /\ pc = "input"
    /\ ~IsBlank(text)
    /\ strategy' = "structural"
    /\ errors' = checkBalancedBraces(text) \o checkBalancedBrackets(text)
    /\ warnings' = IF incompletePattern(Trim(text)) THEN <<IncompleteWarning>> ELSE <<>>
    /\ allEnvs' = AllEnvs(text)
    /\ envStack' = <<>>
    /\ envErrors' = <<>>
    /\ pc' = "replay"
    /\ UNCHANGED <<keys, text, nchunks, report, engineCalls, lastIndex, calls,
                   firstReport>>
    /\ UNCHANGED <<message, caught, widget>>

\* one iteration of the for loop of checkEnvironments
ReplayStep ==
    /\ pc = "replay"
    /\ allEnvs # <<>>
    /\ LET r == ReplayOne(Head(allEnvs), envStack, envErrors)
       IN  /\ envStack' = r.stack
           /\ envErrors' = r.errors
    /\ allEnvs' = Tail(allEnvs)
    /\ UNCHANGED <<keys, text, nchunks, pc, strategy, errors, warnings, report,
                   engineCalls, lastIndex, calls, firstReport>>
    /\ UNCHANGED <<message, caught, widget>>

\* the end of checkEnvironments, checks 5 and 6 and the return of the report
ValidateStructuralReturn ==
    /\ pc = "replay"
    /\ allEnvs = <<>>
    /\ LET environmentErrors == envErrors \o UnclosedErrors(envStack)
           allErrors   == errors \o environmentErrors
           dollarIndex == NewDollarPattern(lastIndex)
           allWarnings == warnings \o checkUnsupportedCommands(text)
                                   \o checkUnescapedSpecialChars(text, dollarIndex)
       IN  /\ envErrors' = environmentErrors
           /\ errors' = allErrors
           /\ warnings' = allWarnings
           /\ report' = StructuralReport(allErrors, allWarnings)
           /\ lastIndex' = dollarPatternTest(text, dollarIndex).lastIndex
    /\ calls' = calls + 1
    /\ firstReport' = IF calls = 0 THEN report' ELSE firstReport
    /\ pc' = "done"
    /\ UNCHANGED <<keys, text, nchunks, strategy, allEnvs, envStack, engineCalls>>
    /\ UNCHANGED <<message, caught, widget>>

\* render-based validateLaTeX, the early return on empty input
ValidateRenderEmpty ==
    /\ pc = "input"
    /\ calls = 0
    /\ IsBlank(text)
    /\ strategy' = "render"
    /\ report' = Report(TRUE, <<>>, <<>>)
    /\ pc' = "done"
    /\ UNCHANGED <<keys, text, nchunks, errors, warnings, allEnvs, envStack,
                   envErrors, engineCalls, lastIndex, calls, firstReport>>
    /\ UNCHANGED <<message, caught, widget>>

\* render-based validateLaTeX, the try / catch around the engine call
ValidateRenderEngine ==
    /\ pc = "input"
    /\ calls = 0
    /\ ~IsBlank(text)
    /\ strategy' = "render"
    /\ engineCalls' = engineCalls + 1
    /\ \E o \in EngineOutcomes :
          /\ caught' = o
          /\ report' = IF o.threw
                       THEN Report(FALSE, <<EngineError(CleanMessage(o.message))>>, <<>>)
                       ELSE Report(TRUE, <<>>, <<>>)
    /\ pc' = "done"
    /\ UNCHANGED <<keys, text, nchunks, errors, warnings, allEnvs, envStack,
                   envErrors, lastIndex, calls, firstReport>>
    /\ UNCHANGED <<message, widget>>

Next ==
    \/ TypeChunk
    \/ ValidateStructuralEmpty
    \/ ValidateStructuralChecks
    \/ ReplayStep
    \/ ValidateStructuralReturn
    \/ ValidateRenderEmpty
    \/ ValidateRenderEngine

Spec == Init /\ [][Next]_vars

\* the caller validates the same string once more
ValidateAgain ==
    /\ pc = "done"
    /\ strategy = "structural"
    /\ calls < MaxCalls
    /\ pc' = "input"
    /\ UNCHANGED <<keys, text, nchunks, strategy, errors, warnings, allEnvs,
                   envStack, envErrors, report, engineCalls, lastIndex, calls,
                   firstReport>>
    /\ UNCHANGED <<message, caught, widget>>

\* a whole structural validateLaTeX call on another string, between two calls
\* on the text: of what it touches only the regex object's lastIndex could
\* outlive it
ValidateOther ==
    /\ pc = "done"
    /\ strategy = "structural"
    /\ calls < MaxCalls
    /\ \E o \in OtherTexts :
          lastIndex' = dollarPatternTest(o, NewDollarPattern(lastIndex)).lastIndex
    /\ calls' = calls + 1
    /\ UNCHANGED <<keys, text, nchunks, pc, strategy, errors, warnings, allEnvs,
                   envStack, envErrors, report, engineCalls, firstReport>>
    /\ UNCHANGED <<message, caught, widget>>

InitCalls ==
    /\ keys = KeysCalls
    /\ text = <<>>
    /\ nchunks = 0
    /\ pc = "input"
    /\ strategy = "none"
    /\ errors = <<>>
    /\ warnings = <<>>
    /\ allEnvs = <<>>
    /\ envStack = <<>>
    /\ envErrors = <<>>
    /\ report = NoReport
    /\ engineCalls = 0
    /\ lastIndex = 0
    /\ calls = 0
    /\ firstReport = NoReport
    /\ message = <<>>
    /\ caught = NoCatch
    /\ WidgetIdle

NextCalls ==
    \/ TypeChunk
    \/ ValidateStructuralEmpty
    \/ ValidateStructuralChecks
    \/ ReplayStep
    \/ ValidateStructuralReturn
    \/ ValidateRenderEmpty
    \/ ValidateRenderEngine
    \/ ValidateAgain
    \/ ValidateOther

SpecCalls == InitCalls /\ [][NextCalls]_vars

\* the keyboard of the formatted reports: two kinds of error, two of warning
KeysFormat == { <<"}">>, <<"[">>, <<"&">>, <<BS, "a">>, BeginA, <<" ">> }

\* the caller formats the report: formatValidationMessage of the module the
\* report came from
FormatMessage ==
    /\ pc = "done"
    /\ message' = formatValidationMessage(report,
                      IF strategy = "structural" THEN StructuralErrorsHeading
                      ELSE RenderErrorsHeading)
    /\ pc' = "formatted"
    /\ UNCHANGED <<keys, text, nchunks, strategy, errors, warnings, allEnvs,
                   envStack, envErrors, report, engineCalls, lastIndex, calls,
                   firstReport>>
    /\ UNCHANGED <<caught, widget>>

InitFormat ==
    /\ keys = KeysFormat
    /\ text = <<>>
    /\ nchunks = 0
    /\ pc = "input"
    /\ strategy = "none"
    /\ errors = <<>>
    /\ warnings = <<>>
    /\ allEnvs = <<>>
    /\ envStack = <<>>
    /\ envErrors = <<>>
    /\ report = NoReport
    /\ engineCalls = 0
    /\ lastIndex = 0
    /\ calls = 0
    /\ firstReport = NoReport
    /\ message = <<>>
    /\ caught = NoCatch
    /\ WidgetIdle

NextFormat ==
    \/ TypeChunk
    \/ ValidateStructuralEmpty
    \/ ValidateStructuralChecks
    \/ ReplayStep
    \/ ValidateStructuralReturn
    \/ ValidateRenderEmpty
    \/ ValidateRenderEngine
    \/ FormatMessage

SpecFormat == InitFormat /\ [][NextFormat]_vars

(* ------------------------------------------------------------------ *)
(* Editor widget: the event handlers                                   *)
(* ------------------------------------------------------------------ *)

\* what the user may leave in the textarea
WidgetTexts == { <<"a">>, <<"{">>, <<"a", NL, "b">>, <<" ">> }

\* the blocks the editor constructs the widget with
WidgetGivens ==
    { NoData,
      [equations |-> [has |-> TRUE, v |-> <<>>],
       multilineEquations |-> [has |-> FALSE, v |-> FALSE]],
      [equations |-> [has |-> TRUE, v |-> << <<"{">>, <<"b">> >>],
       multilineEquations |-> [has |-> TRUE, v |-> TRUE]],
      [equations |-> [has |-> FALSE, v |-> <<>>],
       multilineEquations |-> [has |-> TRUE, v |-> FALSE]] }

\* new LatexTool({ data, config, api }) of the plain widget (validating is
\* FALSE) or of the validating one, which imports one of the two validators
InitWidget ==
    /\ keys = {}
    /\ text = <<>>
    /\ nchunks = 0
    /\ pc = "widget"
    /\ strategy = "none"
    /\ errors = <<>>
    /\ warnings = <<>>
    /\ allEnvs = <<>>
    /\ envStack = <<>>
    /\ envErrors = <<>>
    /\ report = NoReport
    /\ engineCalls = 0
    /\ lastIndex = 0
    /\ calls = 0
    /\ firstReport = NoReport
    /\ message = <<>>
    /\ caught = NoCatch
    /\ validating \in BOOLEAN
    /\ validator \in (IF validating THEN {"structural", "render"} ELSE {"none"})
    /\ given \in WidgetGivens
    /\ data = constructor(given)
    /\ state = constructor(given)
    /\ rendered = FALSE
    /\ equationOverlay = FALSE
    /\ overlayCount = 0
    /\ bodyListener = FALSE
    /\ observers = 0
    /\ textarea = <<>>
    /\ doneDisabled = FALSE
    /\ output = NoOutput
    /\ saved = NoSave
    /\ event = "constructor"

\* render(): the preview element with its click handler, then renderLatex
Render ==
    /\ ~rendered
    /\ rendered' = TRUE
    /\ \E ok \in BOOLEAN : output' = renderLatex(state, ok)
    /\ event' = "render"
    /\ UNCHANGED <<validating, validator, given, data, state, equationOverlay,
                   overlayCount, bodyListener, observers, textarea,
                   doneDisabled, saved>>
    /\ UNCHANGED <<core, message, caught>>

\* toggleEquationOverlay(e) as part of a step: opening builds the overlay
\* (createEquationOverlay, createEquationArea: the textarea holds the joined
\* equations, and the validating widget validates it once), closing removes it
ToggleOverlay ==
    LET w == toggleEquationOverlay(
                 [equationOverlay |-> equationOverlay,
                  overlayCount |-> overlayCount,
                  bodyListener |-> bodyListener,
                  observers |-> observers])
    IN  /\ equationOverlay' = w.equationOverlay
        /\ overlayCount' = w.overlayCount
        /\ bodyListener' = w.bodyListener
        /\ observers' = w.observers
        /\ IF w.equationOverlay
           THEN /\ textarea' = Join(state.equations, <<NL>>)
                /\ \E o \in WidgetEngine :
                      doneDisabled' = (validating
                                       /\ DoneDisabledFor(validator, textarea', o))
           ELSE /\ textarea' = <<>>
                /\ doneDisabled' = FALSE

\* saveEquationState(e): toggleEquationOverlay(e); this.data = {...this.state}
SaveEquationState ==
    /\ ToggleOverlay
    /\ data' = state

\* a click on the preview: this.output.onclick = this.saveEquationState
PreviewClick ==
    /\ rendered
    /\ SaveEquationState
    /\ event' = "previewClick"
    /\ UNCHANGED <<validating, validator, given, state, rendered, output, saved>>
    /\ UNCHANGED <<core, message, caught>>

\* variant: the state is the data object itself, not a copy of it
TextInput_Aliased ==
    /\ equationOverlay
    /\ \E v \in WidgetTexts :
          /\ textarea' = v
          /\ state' = [state EXCEPT !.equations = Split(Trim(v))]
          /\ \E o \in WidgetEngine :
                doneDisabled' = (validating /\ DoneDisabledFor(validator, v, o))
    /\ data' = state'
    /\ \E ok \in BOOLEAN : output' = renderLatex(state', ok)
    /\ event' = "input"
    /\ UNCHANGED <<validating, validator, given, rendered, equationOverlay,
                   overlayCount, bodyListener, observers, saved>>
    /\ UNCHANGED <<core, message, caught>>

\* textarea.oninput: the state takes the trimmed value split into lines, the
\* preview is rendered again, the validating widget sets the Done button
TextInput ==
    /\ equationOverlay
    /\ \E v \in WidgetTexts :
          /\ textarea' = v
          /\ state' = [state EXCEPT !.equations = Split(Trim(v))]
          /\ \E o \in WidgetEngine :
                doneDisabled' = (validating /\ DoneDisabledFor(validator, v, o))
    /\ \E ok \in BOOLEAN : output' = renderLatex(state', ok)
    /\ event' = "input"
    /\ UNCHANGED <<validating, validator, given, data, rendered, equationOverlay,
                   overlayCount, bodyListener, observers, saved>>
    /\ UNCHANGED <<core, message, caught>>

\* multilineEquationsInput.onchange: the box was created with the state's
\* value and a click on it flips it
MultilineChange ==
    /\ equationOverlay
    /\ state' = [state EXCEPT !.multilineEquations = ~state.multilineEquations]
    /\ \E ok \in BOOLEAN : output' = renderLatex(state', ok)
    /\ event' = "checkbox"
    /\ UNCHANGED <<validating, validator, given, data, rendered, equationOverlay,
                   overlayCount, bodyListener, observers, textarea,
                   doneDisabled, saved>>
    /\ UNCHANGED <<core, message, caught>>

\* textarea.onkeydown with Enter and no shift; the validating widget asks for
\* an enabled Done button
EnterKey ==
    /\ equationOverlay
    /\ validating => ~doneDisabled
    /\ SaveEquationState
    /\ event' = "enter"
    /\ UNCHANGED <<validating, validator, given, state, rendered, output, saved>>
    /\ UNCHANGED <<core, message, caught>>

\* doneButton.onclick; the validating widget asks for an enabled button
DoneClick ==
    /\ equationOverlay
    /\ validating => ~doneDisabled
    /\ SaveEquationState
    /\ event' = "done"
    /\ UNCHANGED <<validating, validator, given, state, rendered, output, saved>>
    /\ UNCHANGED <<core, message, caught>>

\* a click that reaches document.body while its listener is registered:
\* toggleEquationOverlay alone
BodyClick ==
    /\ bodyListener
    /\ ToggleOverlay
    /\ event' = "bodyClick"
    /\ UNCHANGED <<validating, validator, given, data, state, rendered, output,
                   saved>>
    /\ UNCHANGED <<core, message, caught>>

\* save(): return { ...this.data }
Save ==
    /\ saved' = [returned |-> TRUE, equations |-> data.equations,
                 multilineEquations |-> data.multilineEquations]
    /\ event' = "save"
    /\ UNCHANGED <<validating, validator, given, data, state, rendered,
                   equationOverlay, overlayCount, bodyListener, observers,
                   textarea, doneDisabled, output>>
    /\ UNCHANGED <<core, message, caught>>

NextWidget ==
    \/ Render
    \/ PreviewClick
    \/ TextInput
    \/ MultilineChange
    \/ EnterKey
    \/ DoneClick
    \/ BodyClick
    \/ Save

SpecWidget == InitWidget /\ [][NextWidget]_vars

(* ------------------------------------------------------------------ *)
(* Properties                                                          *)
(* ------------------------------------------------------------------ *)

StructuralDone == pc = "done" /\ strategy = "structural"
RenderDone     == pc = "done" /\ strategy = "render"

OnlyWhiteSpace(s) == \A i \in 1..Len(s) : s[i] \in WhiteSpace

BraceKinds   == { "Unmatched closing brace at position", "unclosed brace(s)" }
BracketKinds == { "Unmatched closing bracket at position", "unclosed bracket(s)" }
EnvKinds     == { "end has no matching begin", "Environment mismatch",
                  "Unclosed environment" }

IsBraceError(e)   == e.kind \in BraceKinds
IsBracketError(e) == e.kind \in BracketKinds
IsEnvError(e)     == e.kind \in EnvKinds
IsUnclosedEnv(e)  == e.kind = "Unclosed environment"
IsOrphanEnd(e)    == e.kind = "end has no matching begin"
IsDollarWarning(w) == w = DollarWarning

\* C1: every report returned by validate, structural or render-based, has
\* isValid = TRUE exactly when its errors sequence is empty, whatever its
\* warnings hold.
C1_ValidIffNoErrors ==
    report.set => (report.isValid <=> report.errors = <<>>)

\* a structural report that is valid although it carries warnings
C1_Witness ==
    /\ StructuralDone
    /\ report.isValid
    /\ report.warnings # <<>>

\* C3: on empty or whitespace-only input the structural validator returns
\* isValid = FALSE with the single error 'LaTeX code is empty', no warnings,
\* and runs no other check; the render-based validator returns a valid report
\* with no errors and no warnings and does not call the engine.
C3_EmptyInputPolicy ==
    (pc = "done" /\ OnlyWhiteSpace(text)) =>
        IF strategy = "structural"
        THEN /\ report = Report(FALSE, <<EmptyError>>, <<>>)
             /\ errors = <<>> /\ warnings = <<>> /\ envErrors = <<>>
        ELSE /\ report = Report(TRUE, <<>>, <<>>)
             /\ engineCalls = 0

\* the structural validator has answered on a text of two or more blanks
C3_Witness ==
    /\ StructuralDone
    /\ Len(text) >= 2
    /\ OnlyWhiteSpace(text)
    /\ report.set

\* the positions of s that hold open or close and are not preceded by a backslash
NotAfterBackslash(s, open, close) ==
    { i \in 1..Len(s) : s[i] \in {open, close} /\ (i = 1 \/ s[i - 1] # BS) }

\* opens minus closes among the counted positions up to k
Balance(s, counted, open, k) ==
    Cardinality({ i \in counted : i <= k /\ s[i] = open })
    - Cardinality({ i \in counted : i <= k /\ s[i] # open })

\* what a balance check over the counted positions has to report
DelimErrors(s, counted, open, Unmatched(_), Unclosed(_)) ==
    LET negative == { k \in 1..Len(s) : Balance(s, counted, open, k) < 0 }
        final    == Balance(s, counted, open, Len(s))
    IN  IF negative # {} THEN <<Unmatched(SetMin(negative))>>
        ELSE IF final > 0 THEN <<Unclosed(final)>>
        ELSE <<>>

RECURSIVE BackslashRun(_, _)
BackslashRun(s, j) ==
    IF j >= 1 /\ s[j] = BS THEN 1 + BackslashRun(s, j - 1) ELSE 0

\* the character at i is preceded by a backslash that is not itself escaped
EscapedAt(s, i) == BackslashRun(s, i - 1) % 2 = 1

Unescaped(s, open, close) ==
    { i \in 1..Len(s) : s[i] \in {open, close} /\ ~EscapedAt(s, i) }

\* C5: in the brace and bracket scans a delimiter is left out of the count
\* exactly when it is preceded by a single backslash that is not itself
\* escaped; every other delimiter, the one in \\{ included, is counted.
C5_EscapedDelimiters ==
    (StructuralDone /\ ~OnlyWhiteSpace(text)) =>
        /\ SelectSeq(report.errors, IsBraceError)
             = DelimErrors(text, Unescaped(text, "{", "}"), "{",
                           UnmatchedClosingBrace, UnclosedBraces)
        /\ SelectSeq(report.errors, IsBracketError)
             = DelimErrors(text, Unescaped(text, "[", "]"), "[",
                           UnmatchedClosingBracket, UnclosedBrackets)

RemoveAt(s, p) == SubSeq(s, 1, p - 1) \o SubSeq(s, p + 1, Len(s))
ReplaceAt(s, p, c) == [s EXCEPT ![p] = c]

\* the positions holding open or close with no backslash next to them
Free(s, open, close) ==
    { p \in 1..Len(s) : /\ s[p] \in {open, close}
                        /\ (p = 1 \/ s[p - 1] # BS)
                        /\ (p = Len(s) \/ s[p + 1] # BS) }

\* the errors as reported once the character at p is gone: a reported
\* position behind p moves one to the left
ShiftLeft(errs, p) ==
    [k \in 1..Len(errs) |->
        IF errs[k].n > p /\ errs[k].kind \in
              { "Unmatched closing brace at position",
                "Unmatched closing bracket at position" }
        THEN [errs[k] EXCEPT !.n = @ - 1]
        ELSE errs[k]]

\* C6 as stated: removing (or inserting) a brace that is not next to a
\* backslash never changes the bracket errors, and the brace errors do not
\* depend on the brackets.
C6_Original ==
    (StructuralDone /\ ~OnlyWhiteSpace(text)) =>
        /\ \A p \in Free(text, "{", "}") :
              checkBalancedBrackets(RemoveAt(text, p))
                = SelectSeq(report.errors, IsBracketError)
        /\ \A p \in Free(text, "[", "]") :
              checkBalancedBraces(RemoveAt(text, p))
                = SelectSeq(report.errors, IsBraceError)

\* C6 (amended): the bracket check has its own counter and is unaffected by
\* braces except for the reported text position: replacing a brace that is
\* not next to a backslash by the other brace or by a letter leaves the
\* bracket errors as they are, and removing it leaves their kind and count
\* and moves the position of an unmatched closing bracket behind it by one;
\* [{]} yields no error; the same holds for brace errors and brackets.
C6_Independent ==
    (StructuralDone /\ ~OnlyWhiteSpace(text)) =>
        LET bracketErrors == SelectSeq(report.errors, IsBracketError)
            braceErrors   == SelectSeq(report.errors, IsBraceError)
        IN  /\ \A p \in Free(text, "{", "}") :
                  /\ checkBalancedBrackets(RemoveAt(text, p))
                       = ShiftLeft(bracketErrors, p)
                  /\ \A c \in {"{", "}", "a"} :
                        checkBalancedBrackets(ReplaceAt(text, p, c)) = bracketErrors
            /\ \A p \in Free(text, "[", "]") :
                  /\ checkBalancedBraces(RemoveAt(text, p))
                       = ShiftLeft(braceErrors, p)
                  /\ \A c \in {"[", "]", "a"} :
                        checkBalancedBraces(ReplaceAt(text, p, c)) = braceErrors
            /\ text = <<"[", "{", "]", "}">> => report.errors = <<>>

\* interleaved nesting [{]} has been validated
C6_Witness ==
    /\ StructuralDone
    /\ text = <<"[", "{", "]", "}">>
    /\ report.isValid

Replaying(type) == pc = "replay" /\ allEnvs # <<>> /\ Head(allEnvs).type = type

\* C7: during the replay, an \end{b} processed while the top of the stack is a
\* adds exactly one mismatch error naming a as opened and b as closing when
\* a differs from b and no error when a equals b, and pops a either way, so
\* that this \begin{a} is not reported as unclosed afterwards.
C7_MismatchPops ==
    [][ (Replaying("end") /\ envStack # <<>>) =>
          LET a == envStack[Len(envStack)]
              b == Head(allEnvs).name
          IN  /\ envStack' = SubSeq(envStack, 1, Len(envStack) - 1)
              /\ envErrors' = IF a # b
                              THEN Append(envErrors, EnvironmentMismatch(a, b))
                              ELSE envErrors
              /\ allEnvs' = Tail(allEnvs) ]_vars

\* \begin{a}\end{b} has been answered with the mismatch as its only error
C7_Witness ==
    /\ StructuralDone
    /\ text = BeginA \o EndB
    /\ report.errors = <<EnvironmentMismatch(<<"a">>, <<"b">>)>>

\* C8: during the replay, an \end{name} processed on an empty stack adds
\* exactly one error '\end{name} has no matching \begin{name}', leaves the
\* stack empty, and the replay goes on: a later \begin is pushed (and adds
\* no error).
C8_OrphanEnd ==
    [][ /\ (Replaying("end") /\ envStack = <<>>) =>
              /\ envErrors' = Append(envErrors, EndWithoutBegin(Head(allEnvs).name))
              /\ envStack' = <<>>
              /\ allEnvs' = Tail(allEnvs)
              /\ pc' = "replay"
        /\ Replaying("begin") =>
              /\ envStack' = Append(envStack, Head(allEnvs).name)
              /\ envErrors' = envErrors
              /\ allEnvs' = Tail(allEnvs)
              /\ pc' = "replay" ]_vars

\* an orphan \end has been reported and a later \begin is on the stack
C8_Witness ==
    /\ pc = "replay"
    /\ envErrors = <<EndWithoutBegin(<<"a">>)>>
    /\ envStack = <<<<"b">>>>

\* the \begin at index i of the sorted markers is closed by no later \end:
\* no stretch of markers after it holds more \end than \begin
NeverClosed(ms, i) ==
    \A j \in (i + 1)..Len(ms) :
        Cardinality({ k \in (i + 1)..j : ms[k].type = "end" })
          <= Cardinality({ k \in (i + 1)..j : ms[k].type = "begin" })

RECURSIVE NamesOf(_, _, _)
NamesOf(ms, keep, i) ==
    IF i > Len(ms) THEN <<>>
    ELSE (IF i \in keep THEN <<ms[i].name>> ELSE <<>>) \o NamesOf(ms, keep, i + 1)

\* C9: after the replay every name left on the stack is reported as one
\* unclosed-environment error, in push order (outermost first); their number
\* is the number of \begin markers minus the number of \end markers that
\* popped an entry; a text with one \begin{foo} and no \end has that one
\* environment error and no other.
C9_UnclosedReported ==
    (StructuralDone /\ ~OnlyWhiteSpace(text)) =>
        LET ms       == AllEnvs(text)
            begins   == { i \in 1..Len(ms) : ms[i].type = "begin" }
            ends     == { i \in 1..Len(ms) : ms[i].type = "end" }
            envErrs  == SelectSeq(report.errors, IsEnvError)
            unclosed == SelectSeq(report.errors, IsUnclosedEnv)
            orphans  == SelectSeq(report.errors, IsOrphanEnd)
            open     == NamesOf(ms, { i \in begins : NeverClosed(ms, i) }, 1)
        IN  /\ unclosed = [k \in 1..Len(open) |-> UnclosedEnvironment(open[k])]
            /\ unclosed = [k \in 1..Len(envStack) |-> UnclosedEnvironment(envStack[k])]
            /\ Len(unclosed)
                 = Cardinality(begins) - (Cardinality(ends) - Len(orphans))
            /\ (Cardinality(begins) = 1 /\ ends = {}) =>
                   envErrs = <<UnclosedEnvironment(ms[1].name)>>

\* two different environments are left open and both have been reported
C9_Witness ==
    /\ StructuralDone
    /\ text = BeginA \o BeginB
    /\ report.errors = <<UnclosedEnvironment(<<"a">>), UnclosedEnvironment(<<"b">>)>>

\* the markers cancel out: adjacent \begin{x}\end{x} pairs removed until none is left
RECURSIVE Cancels(_)
Cancels(ms) ==
    IF ms = <<>> THEN TRUE
    ELSE LET pairs == { i \in 1..(Len(ms) - 1) :
                          /\ ms[i].type = "begin"
                          /\ ms[i + 1].type = "end"
                          /\ ms[i].name = ms[i + 1].name }
         IN  IF pairs = {} THEN FALSE
             ELSE LET i == SetMin(pairs)
                  IN  Cancels(SubSeq(ms, 1, i - 1) \o SubSeq(ms, i + 2, Len(ms)))

\* unescaped braces and brackets balanced, every \begin matched by a properly
\* nested \end of the same name, no denylisted command
WellFormed(s) ==
    /\ DelimErrors(s, Unescaped(s, "{", "}"), "{",
                   UnmatchedClosingBrace, UnclosedBraces) = <<>>
    /\ DelimErrors(s, Unescaped(s, "[", "]"), "[",
                   UnmatchedClosingBracket, UnclosedBrackets) = <<>>
    /\ Cancels(AllEnvs(s))
    /\ \A k \in 1..Len(katexOnlyCommands) : ~Includes(s, katexOnlyCommands[k])

\* C2: for every well-formed input string the structural validator returns
\* isValid = TRUE with an empty errors sequence (stated here for the inputs
\* that are not blank, which C3 sets apart).
C2_WellFormedIsValid ==
    (StructuralDone /\ ~OnlyWhiteSpace(text) /\ WellFormed(text)) =>
        /\ report.isValid
        /\ report.errors = <<>>

\* the positions of the '$' characters that no backslash precedes
UnescapedDollars(s) == { i \in 1..Len(s) : s[i] = "$" /\ (i = 1 \/ s[i - 1] # BS) }
Dollars(s) == { i \in 1..Len(s) : s[i] = "$" }

\* C10: a text with a single unescaped '$' and no second '$' gets the
\* unescaped-dollar warning exactly once; a text whose unescaped '$' form one
\* properly paired $...$ span around some content gets no such warning.
C10_DollarHeuristic ==
    (StructuralDone /\ ~OnlyWhiteSpace(text)) =>
        LET n == Len(SelectSeq(report.warnings, IsDollarWarning))
            u == UnescapedDollars(text)
        IN  /\ (Cardinality(u) = 1 /\ Dollars(text) = u) => n = 1
            /\ (/\ Cardinality(u) = 2
                /\ Dollars(text) = u
                /\ \E i \in u : \E j \in u : j > i + 1) => n = 0

IsAmpersandWarning(w) == w = AmpersandWarning
IsIncompleteWarning(w) == w = IncompleteWarning

\* the sequence sub occurs in s
Occurs(s, sub) ==
    \E i \in 1..(Len(s) - Len(sub) + 1) : SubSeq(s, i, i + Len(sub) - 1) = sub

Denylist == { HtmlClass, HtmlId, HtmlStyle, HtmlData }

\* C12: for every text and every denylisted command the structural validator
\* adds exactly one warning naming the command when the text holds it as a
\* substring (however often) and none otherwise; the command adds no error,
\* so a text made of denylisted commands and letters alone is valid.
C12_Denylist ==
    (StructuralDone /\ ~OnlyWhiteSpace(text)) =>
        /\ \A cmd \in Denylist :
              Cardinality({ k \in 1..Len(report.warnings) :
                              report.warnings[k] = UnsupportedWarning(cmd) })
                = IF Occurs(text, cmd) THEN 1 ELSE 0
        /\ \A k \in 1..Len(report.errors) :
              report.errors[k].kind \in BraceKinds \cup BracketKinds \cup EnvKinds
        /\ (keys = KeysDeny /\ \A i \in 1..Len(text) : text[i] # "{") =>
              (report.isValid /\ report.errors = <<>>)

\* a command typed twice and another one once: one warning each, and valid
C12_Witness ==
    /\ StructuralDone
    /\ text = HtmlId \o HtmlId \o HtmlClass
    /\ report.warnings = <<IncompleteWarning, UnsupportedWarning(HtmlClass),
                          UnsupportedWarning(HtmlId)>>
    /\ report.isValid

\* the index of the last character of s that is not white space, or 0
LastInk(s) ==
    LET ink == { i \in 1..Len(s) : s[i] \notin WhiteSpace }
    IN  IF ink = {} THEN 0 ELSE CHOOSE i \in ink : \A j \in ink : j <= i

\* the text, trailing white space aside, ends with a backslash and one or more letters
EndsWithCommand(s) ==
    LET last    == LastInk(s)
        nonLets == { i \in 1..last : s[i] \notin Letters }
    IN  /\ nonLets # {}
        /\ LET j == CHOOSE i \in nonLets : \A m \in nonLets : m <= i
           IN  s[j] = BS /\ j < last

\* C13: the structural validator adds the 'command appears incomplete at end'
\* warning exactly when the trimmed text ends with a backslash followed by
\* one or more letters and nothing else; it is a warning, never an error.
C13_IncompleteCommand ==
    (StructuralDone /\ ~OnlyWhiteSpace(text)) =>
        /\ SelectSeq(report.warnings, IsIncompleteWarning)
             = IF EndsWithCommand(text) THEN <<IncompleteWarning>> ELSE <<>>
        /\ \A k \in 1..Len(report.errors) :
              report.errors[k].kind \in BraceKinds \cup BracketKinds \cup EnvKinds
        /\ report.isValid <=> report.errors = <<>>

\* a trailing command followed by white space: warned about, and valid
C13_Witness ==
    /\ StructuralDone
    /\ text = <<"a", BS, "a", " ">>
    /\ report.warnings = <<IncompleteWarning>>
    /\ report.isValid

\* C14: a structural validate call on a string returns a report equal to the
\* one the first call on that string returned (same isValid, same errors and
\* warnings in the same order), whatever calls on other strings came in
\* between: nothing of an earlier call reaches a later one.
C14_SameReportAgain ==
    (StructuralDone /\ calls >= 1) => (firstReport.set /\ report = firstReport)

\* a later call on a text with an unpaired '$' has answered, after a call on
\* another string that left its own regex object at a match
C14_Witness ==
    /\ StructuralDone
    /\ calls = 3
    /\ text = <<"a", "$">>
    /\ report.warnings = <<DollarWarning>>

\* C15: for a non-empty text the errors of the structural report are the
\* brace errors, then the bracket errors, then the environment errors, and
\* the warnings are the incomplete-command warning, the denylist warnings in
\* list order, the dollar warning and the ampersand warning, in that order;
\* each part is what its check finds in the text, whatever the other checks
\* report: an early stop of the brace check suppresses neither bracket nor
\* environment errors.
C15_OrderOfChecks ==
    (StructuralDone /\ ~OnlyWhiteSpace(text)) =>
        LET Held(w) == Occurs(text, w.a)
            denied  == SelectSeq(<<UnsupportedWarning(HtmlClass), UnsupportedWarning(HtmlId),
                                   UnsupportedWarning(HtmlStyle), UnsupportedWarning(HtmlData)>>,
                                 Held)
            dollar  == SelectSeq(report.warnings, IsDollarWarning)
        IN  /\ report.errors
                 = DelimErrors(text, NotAfterBackslash(text, "{", "}"), "{",
                               UnmatchedClosingBrace, UnclosedBraces)
                   \o DelimErrors(text, NotAfterBackslash(text, "[", "]"), "[",
                                  UnmatchedClosingBracket, UnclosedBrackets)
                   \o SelectSeq(report.errors, IsEnvError)
            /\ SelectSeq(report.errors, IsEnvError) = envErrors
            /\ Len(dollar) <= 1
            /\ report.warnings
                 = (IF EndsWithCommand(text) THEN <<IncompleteWarning>> ELSE <<>>)
                   \o denied
                   \o dollar
                   \o (IF Occurs(text, <<"&">>) /\ ~Occurs(text, BeginTabular)
                       THEN <<AmpersandWarning>> ELSE <<>>)

\* the brace check stopped at the first character and the bracket check still reported
C15_Witness ==
    /\ StructuralDone
    /\ text = <<"}", "[", "{">>
    /\ report.errors = <<UnmatchedClosingBrace(1), UnclosedBrackets(1)>>

\* the formatted message without its line breaks
Pieces(m) == SelectSeq(m, LAMBDA t : t.kind # "newline")

\* the places of the message where an empty line stands
BlankLines(m) ==
    { i \in 1..(Len(m) - 1) : m[i].kind = "newline" /\ m[i + 1].kind = "newline" }

\* one section: its heading, then its entries numbered from 1 in order
Section(heading, list) ==
    IF list = <<>> THEN <<>>
    ELSE <<heading>> \o [i \in 1..Len(list) |->
                            [kind |-> "item", n |-> i, body |-> list[i]]]

\* C16: the formatted message holds an errors section (heading, then the errors
\* numbered 1..n in order) iff there are errors, then a warnings section (its
\* own heading, the warnings numbered 1..m from 1 again) iff there are
\* warnings; every piece is on a line of its own; exactly one empty line,
\* right before the warnings heading, iff both sections are there; a report
\* without errors and warnings formats to the empty string
C16_FormatSections ==
    (pc = "formatted") =>
        LET heading == IF strategy = "structural" THEN StructuralErrorsHeading
                       ELSE RenderErrorsHeading
            both    == report.errors # <<>> /\ report.warnings # <<>>
        IN  /\ heading # WarningsHeading
            /\ Pieces(message)
                 = Section(heading, report.errors)
                   \o Section(WarningsHeading, report.warnings)
            /\ (report.errors = <<>> /\ report.warnings = <<>>) => message = <<>>
            /\ message # <<>> =>
                  /\ message[1].kind # "newline"
                  /\ message[Len(message)].kind # "newline"
            /\ \A i \in 1..(Len(message) - 1) :
                  message[i].kind = "newline" \/ message[i + 1].kind = "newline"
            /\ Cardinality(BlankLines(message)) = (IF both THEN 1 ELSE 0)
            /\ \A i \in BlankLines(message) : message[i + 2] = WarningsHeading

C16_Witness ==
    /\ pc = "formatted"
    /\ strategy = "structural"
    /\ Len(report.errors) = 2
    /\ Len(report.warnings) = 2
    /\ Len(message) = 12

\* the occurrences of "at position <digits>: " in m, as <<first, last>> indices
PositionSpans(m) ==
    { sp \in (1..Len(m)) \X (1..Len(m)) :
        /\ HasAt(m, sp[1], AtPosition)
        /\ sp[2] >= sp[1] + Len(AtPosition) + 2
        /\ \A k \in (sp[1] + Len(AtPosition))..(sp[2] - 2) : m[k] \in Digits
        /\ m[sp[2] - 1] = ":"
        /\ m[sp[2]] = " " }

\* m without the indices first..last
Without(m, first, last) ==
    [k \in 1..(Len(m) - (last - first + 1)) |->
        IF k < first THEN m[k] ELSE m[k + (last - first + 1)]]

\* e is m without the white space around it
IsTrimOf(e, m) ==
    \E a \in 1..(Len(m) + 1) : \E b \in 0..Len(m) :
        /\ e = SubSeq(m, a, b)
        /\ \A k \in 1..(a - 1) : m[k] \in WhiteSpace
        /\ \A k \in (b + 1)..Len(m) : m[k] \in WhiteSpace
        /\ e # <<>> => (e[1] \notin WhiteSpace /\ e[Len(e)] \notin WhiteSpace)

\* e is what the caller is to see of the engine's message m
IsCleaned(e, m) ==
    LET given0 == IF m = <<>> THEN DefaultMessage ELSE m
        np     == Len(ParsePrefix)
        body   == IF Len(given0) >= np /\ SubSeq(given0, 1, np) = ParsePrefix
                  THEN [k \in 1..(Len(given0) - np) |-> given0[k + np]]
                  ELSE given0
        spans  == PositionSpans(body)
    IN  IF spans = {} THEN IsTrimOf(e, body)
        ELSE \E sp \in spans :
                /\ \A o \in spans : sp[1] <= o[1]
                /\ IsTrimOf(e, Without(body, sp[1], sp[2]))

SaveEvents   == { "previewClick", "enter", "done" }
ToggleEvents == SaveEvents \cup { "bodyClick" }

\* C18: in the validating widget saveEquationState runs only on a textarea
\* text that validateLaTeX accepts, that is with the Done button enabled: the
\* button of the overlay it closes, or of the overlay it opens
C18_SaveOnlyWhenValid ==
    [][(validating /\ event' \in SaveEvents) =>
          ~(IF equationOverlay THEN doneDisabled ELSE doneDisabled')]_vars

\* C19: in the plain widget there is at most one overlay; the document-body
\* listener is registered and the resize observer connected iff the overlay
\* exists; every toggleEquationOverlay call flips the overlay, and a close
\* leaves no listener and no observer
C19_OverlayInvariant ==
    /\ [](~validating =>
            /\ overlayCount \in {0, 1}
            /\ equationOverlay <=> overlayCount = 1
            /\ bodyListener <=> equationOverlay
            /\ observers = (IF equationOverlay THEN 1 ELSE 0))
    /\ [][(~validating /\ event' \in ToggleEvents) =>
            /\ equationOverlay' = ~equationOverlay
            /\ ~equationOverlay' => (~bodyListener' /\ observers' = 0)]_vars

C19_Witness ==
    /\ ~validating
    /\ event = "bodyClick"
    /\ ~equationOverlay
    /\ overlayCount = 0
    /\ ~bodyListener
    /\ observers = 0
    /\ state.equations = << <<"a">>, <<"b">> >>

\* C20: in the plain widget the block data is the constructor's data with the
\* defaults [''] and false until saveEquationState runs, every
\* saveEquationState makes it the state of that moment, no other handler
\* changes it, and save() returns its equations and multilineEquations
C20_CommitFrame ==
    /\ []((~validating /\ event = "constructor") =>
            /\ data.equations = (IF given.equations.has THEN given.equations.v
                                 ELSE << <<>> >>)
            /\ data.multilineEquations = (IF given.multilineEquations.has
                                          THEN given.multilineEquations.v
                                          ELSE FALSE))
    /\ [][~validating =>
            /\ event' \in SaveEvents => data' = state
            /\ event' \notin SaveEvents => data' = data
            /\ event' = "save" =>
                  /\ saved'.returned
                  /\ saved'.equations = data.equations
                  /\ saved'.multilineEquations = data.multilineEquations
            /\ event' # "save" => saved' = saved]_vars

C20_Witness ==
    /\ ~validating
    /\ event = "save"
    /\ ~equationOverlay
    /\ given = NoData
    /\ saved = [returned |-> TRUE, equations |-> << <<>> >>,
                multilineEquations |-> FALSE]
    /\ state = [equations |-> << <<"a">>, <<"b">> >>, multilineEquations |-> TRUE]

====
